---- MODULE Spec2Model ----
(***************************************************************************)
(* Public issue-collaboration surface of plane/space/views/issue.py:       *)
(* comments, issue reactions, comment reactions and votes behind the       *)
(* per-project deploy board, and the public project issue listing.         *)
(* One action per request handler, run to completion; the create and     *)
(* destroy handlers also call by call, for the order and the races.       *)
(***************************************************************************)
EXTENDS Integers, Sequences, FiniteSets, TLC

\* ---------------------------------------------------------------- bounds
\* rows inserted in a behaviour of Spec, which has every handler
MaxRows == 1
\* rows inserted in a behaviour of SpecComment, SpecReaction and SpecVote,
\* which have one resource's handlers each
MaxComments == 1
MaxReactions == 2
MaxVotes == 2
\* rows inserted in a behaviour of SpecCreate, which has the four create handlers
MaxCreates == 2

\* requests handled step by step in a behaviour of SpecSteps, SpecVoteRace and
\* SpecRegisterRace, one per worker
MaxWorkers == 2

\* ------------------------------------------------------------ static data
Slugs == {"w1", "w2"}
\* workspace slug of the sub-resource requests
PathSlugs == {"w1"}
Projects == {"P1", "P2", "P3"}
\* projects addressed by the sub-resource requests
PathProjects == {"P1", "P2"}
Users == {"A", "B"}
Anonymous == "anon"
ReactionCodes == {"x", "y"}
CommentBodies == {"a", "b"}
Priorities == {"high", "low"}

ProjectWorkspace(p) == IF p = "P3" THEN "w2" ELSE "w1"

\* Issue rows (created elsewhere; read-only here)
IssueRows ==
  { [id |-> "I1", project |-> "P1", workspace |-> "w1", is_draft |-> TRUE,  priority |-> "high"],
    [id |-> "I2", project |-> "P2", workspace |-> "w1", is_draft |-> TRUE,  priority |-> "low"],
    [id |-> "I3", project |-> "P1", workspace |-> "w1", is_draft |-> FALSE, priority |-> "high"],
    [id |-> "I4", project |-> "P3", workspace |-> "w2", is_draft |-> TRUE,  priority |-> "low"] }
\* issues addressed by the sub-resource requests
PathIssues == {"I1", "I2"}

\* ProjectMember rows (formal membership; read-only here)
ProjectMemberRows ==
  { [project |-> "P1", member |-> "B", is_active |-> TRUE],
    [project |-> "P2", member |-> "B", is_active |-> FALSE] }

Null == [kind |-> "null"]

VARIABLES
  boards,             \* ProjectDeployBoard rows
  comments,           \* IssueComment rows
  issue_reactions,    \* IssueReaction rows
  comment_reactions,  \* CommentReaction rows
  votes,              \* IssueVote rows
  public_members,     \* number of ProjectPublicMember rows per <<project, member>>
  events,             \* activity events the current request handed to
                      \* issue_activity.delay, in order
  nextId,             \* next fresh primary key
  req,                \* the request just handled
  resp,               \* its response
  calls               \* per worker, the request it is handling step by step

vars == <<boards, comments, issue_reactions, comment_reactions, votes,
          public_members, events, nextId, req, resp, calls>>
stores == <<comments, issue_reactions, comment_reactions, votes, public_members>>

NoRequest == [op |-> "none"]

\* the request workers of section 5: one request each
Workers == 1..MaxWorkers
\* a worker that has not taken its request yet
NoCall == [status |-> "idle"]
Idle == req = NoRequest

\* ------------------------------------------------------- requests/responses
Request(op, slug, project, issue, comment, code, actor, payload, emit_ok) ==
  [op |-> op, slug |-> slug, project |-> project, issue |-> issue,
   comment |-> comment, code |-> code, actor |-> actor, payload |-> payload,
   emit_ok |-> emit_ok]

Response(status, exception, rows, issues) ==
  [status |-> status, exception |-> exception, rows |-> rows, issues |-> issues]
Reply(status) == Response(status, "none", <<>>, {})
Listing(rows) == Response("Ok", "none", rows, {})

\* the exception handler of the base view: a failed lookup is a 404, any other
\* fault a 5xx
HandleException(exception) ==
  IF exception = "DoesNotExist" THEN "NotFound" ELSE "ServerError"
\* an exception left the handler
Raise(exception) == Response(HandleException(exception), exception, <<>>, {})

SuccessStatus == {"Created", "Ok", "NoContent"}
ErrorStatus == {"CapabilityDisabled", "ValidationError", "NotFound", "ServerError"}

\* ------------------------------------------------------------------ gate
\* ProjectDeployBoard.objects.filter(workspace__slug=slug, project_id=project_id)
BoardsOf(slug, project) ==
  {b \in boards : b.workspace = slug /\ b.project = project}
HasBoard(slug, project) == BoardsOf(slug, project) # {}
BoardOf(slug, project) == CHOOSE b \in BoardsOf(slug, project) : TRUE

Pass == Reply("pass")

\* CommentGate without the flag test
CommentGateNoFlag(slug, project) ==
  IF ~HasBoard(slug, project) THEN Raise("DoesNotExist") ELSE Pass

\* ProjectDeployBoard.objects.get(...) and the comments flag, at the head of
\* every mutating comment handler
CommentGate(slug, project) ==
  IF ~HasBoard(slug, project) THEN Raise("DoesNotExist")
  ELSE IF ~BoardOf(slug, project).comments THEN Reply("CapabilityDisabled")
  ELSE Pass

\* ProjectDeployBoard.objects.get(...) and the reactions flag, at the head of
\* every mutating reaction handler
ReactionGate(slug, project) ==
  IF ~HasBoard(slug, project) THEN Raise("DoesNotExist")
  ELSE IF ~BoardOf(slug, project).reactions THEN Reply("CapabilityDisabled")
  ELSE Pass

\* ProjectMember.objects.filter(project_id, member, is_active=True).exists()
IsActiveMember(project, user) ==
  \E m \in ProjectMemberRows :
    m.project = project /\ m.member = user /\ m.is_active

\* create() in place of get_or_create()
PublicMemberAlwaysCreate(pm, project, user) ==
  [pm EXCEPT ![<<project, user>>] = @ + 1]

\* ProjectPublicMember.objects.get_or_create(project_id, member)
PublicMemberGetOrCreate(pm, project, user) ==
  IF pm[<<project, user>>] > 0 THEN pm
  ELSE [pm EXCEPT ![<<project, user>>] = 1]

\* the visitor-registration block shared by the four create handlers
RegisterVisitor(pm, project, user) ==
  IF ~IsActiveMember(project, user)
  THEN PublicMemberGetOrCreate(pm, project, user)
  ELSE pm

\* the keyword arguments of issue_activity.delay (epoch left out)
Event(type, requested_data, actor, issue, project, current_instance) ==
  [type |-> type, requested_data |-> requested_data, actor_id |-> actor,
   issue_id |-> issue, project_id |-> project,
   current_instance |-> current_instance]

\* --------------------------------------------------------------- helpers
RECURSIVE OrderById(_)
\* rows by ascending primary key, which is ascending created_at
OrderById(rows) ==
  IF rows = {} THEN <<>>
  ELSE LET first == CHOOSE r \in rows : \A o \in rows : r.id <= o.id
       IN <<first>> \o OrderById(rows \ {first})

Reverse(s) == [i \in 1..Len(s) |-> s[Len(s) + 1 - i]]

\* serializer.is_valid()
IsValid(payload) == payload.kind # "invalid"

\* --------------------------------------------------------------- comments
CommentPayloads ==
  {[kind |-> "comment", comment_html |-> b] : b \in CommentBodies}
    \cup {[kind |-> "invalid"]}

CommentRow(id, project, issue, actor, access, body) ==
  [id |-> id, project |-> project, workspace |-> ProjectWorkspace(project),
   issue |-> issue, actor |-> actor, access |-> access, comment_html |-> body]

\* an INTERNAL comment written through the member-facing application
InternalComment == CommentRow(0, "P1", "I1", "B", "INTERNAL", "a")

\* IssueCommentSerializer(comment).data
CommentData(c) ==
  [kind |-> "comment", id |-> c.id, project |-> c.project, issue |-> c.issue,
   actor |-> c.actor, access |-> c.access, comment_html |-> c.comment_html]

\* CommentGetQueryset without the flag test
CommentGetQuerysetNoFlag(slug, project, issue, requester) ==
  IF ~HasBoard(slug, project) THEN <<>>
  ELSE LET ordered == OrderById({c \in comments : /\ c.workspace = slug
                                                  /\ c.issue = issue
                                                  /\ c.access = "EXTERNAL"})
       IN [i \in 1..Len(ordered) |->
             [row |-> ordered[i],
              is_member |-> IsActiveMember(project, requester)]]

\* CommentGetQueryset without the access filter
CommentGetQuerysetAnyAccess(slug, project, issue, requester) ==
  IF ~HasBoard(slug, project) THEN <<>>
  ELSE IF ~BoardOf(slug, project).comments THEN <<>>
  ELSE LET ordered == OrderById({c \in comments : /\ c.workspace = slug
                                                  /\ c.issue = issue})
       IN [i \in 1..Len(ordered) |->
             [row |-> ordered[i],
              is_member |-> IsActiveMember(project, requester)]]

CommentGetQueryset(slug, project, issue, requester) ==
  IF ~HasBoard(slug, project) THEN <<>>
  ELSE IF ~BoardOf(slug, project).comments THEN <<>>
  ELSE LET rows == {c \in comments : /\ c.workspace = slug
                                     /\ c.issue = issue
                                     /\ c.access = "EXTERNAL"}
           ordered == OrderById(rows)
       IN [i \in 1..Len(ordered) |->
             [row |-> ordered[i],
              is_member |-> IsActiveMember(project, requester)]]

CommentList(slug, project, issue, requester) ==
  /\ req' = Request("comment_list", slug, project, issue, 0, "-", requester, Null, TRUE)
  /\ resp' = Listing(CommentGetQueryset(slug, project, issue, requester))
  /\ events' = <<>>
  /\ UNCHANGED <<boards, stores, nextId>>

CommentCreate(slug, project, issue, actor, payload, emit_ok) ==
  /\ req' = Request("comment_create", slug, project, issue, 0, "-", actor, payload, emit_ok)
  /\ UNCHANGED <<boards, issue_reactions, comment_reactions, votes>>
  /\ IF CommentGate(slug, project) # Pass
     THEN /\ resp' = CommentGate(slug, project)
          /\ events' = <<>>
          /\ UNCHANGED <<comments, public_members, nextId>>
     ELSE IF ~IsValid(payload)
     THEN /\ resp' = Reply("ValidationError")
          /\ events' = <<>>
          /\ UNCHANGED <<comments, public_members, nextId>>
     ELSE LET row == CommentRow(nextId, project, issue, actor, "EXTERNAL",
                                payload.comment_html)
          IN
          /\ comments' = comments \cup {row}
          /\ nextId' = nextId + 1
          /\ IF emit_ok
             THEN /\ events' = <<Event("comment.activity.created", CommentData(row),
                                         actor, issue, project, Null)>>
                  /\ public_members' = RegisterVisitor(public_members, project, actor)
                  /\ resp' = Reply("Created")
             ELSE \* issue_activity.delay raised: the rest of the handler is skipped
                  /\ events' = <<>>
                  /\ UNCHANGED public_members
                  /\ resp' = Raise("EmissionError")

\* the lookup without actor=request.user
CommentUpdateLookupAnyActor(slug, project, pk, actor) ==
  {c \in comments : c.workspace = slug /\ c.id = pk}

\* IssueComment.objects.get(workspace__slug=slug, pk=pk, actor=request.user)
CommentUpdateLookup(slug, project, pk, actor) ==
  {c \in comments : c.workspace = slug /\ c.id = pk /\ c.actor = actor}

CommentPartialUpdate(slug, project, issue, pk, actor, payload, emit_ok) ==
  LET found == CommentUpdateLookup(slug, project, pk, actor) IN
  /\ req' = Request("comment_update", slug, project, issue, pk, "-", actor, payload, emit_ok)
  /\ UNCHANGED <<boards, issue_reactions, comment_reactions, votes, public_members, nextId>>
  /\ IF CommentGate(slug, project) # Pass
     THEN /\ resp' = CommentGate(slug, project)
          /\ events' = <<>>
          /\ UNCHANGED comments
     ELSE IF found = {}
     THEN /\ resp' = Raise("DoesNotExist")
          /\ events' = <<>>
          /\ UNCHANGED comments
     ELSE IF ~IsValid(payload)
     THEN /\ resp' = Reply("ValidationError")
          /\ events' = <<>>
          /\ UNCHANGED comments
     ELSE LET old == CHOOSE c \in found : TRUE
              new == [old EXCEPT !.comment_html = payload.comment_html]
          IN
          /\ comments' = (comments \ {old}) \cup {new}
          /\ IF emit_ok
             THEN \* the snapshot is serialized from the instance after save()
                  /\ events' = <<Event("comment.activity.updated", payload, actor,
                                         issue, project, CommentData(new))>>
                  /\ resp' = Reply("Ok")
             ELSE /\ events' = <<>>
                  /\ resp' = Raise("EmissionError")

\* IssueComment.objects.get(workspace__slug, pk, project_id, actor)
CommentDestroyLookup(slug, project, pk, actor) ==
  {c \in comments : /\ c.workspace = slug /\ c.id = pk
                    /\ c.project = project /\ c.actor = actor}

CommentDestroy(slug, project, issue, pk, actor, emit_ok) ==
  LET found == CommentDestroyLookup(slug, project, pk, actor) IN
  /\ req' = Request("comment_destroy", slug, project, issue, pk, "-", actor, Null, emit_ok)
  /\ UNCHANGED <<boards, issue_reactions, comment_reactions, votes, public_members, nextId>>
  /\ IF CommentGate(slug, project) # Pass
     THEN /\ resp' = CommentGate(slug, project)
          /\ events' = <<>>
          /\ UNCHANGED comments
     ELSE IF found = {}
     THEN /\ resp' = Raise("DoesNotExist")
          /\ events' = <<>>
          /\ UNCHANGED comments
     ELSE LET row == CHOOSE c \in found : TRUE IN
          IF emit_ok
          THEN /\ events' = <<Event("comment.activity.deleted",
                                    [kind |-> "comment_id", comment_id |-> pk],
                                    actor, issue, project, CommentData(row))>>
               /\ comments' = comments \ {row}
               /\ resp' = Reply("NoContent")
          ELSE \* issue_activity.delay raised before comment.delete()
               /\ events' = <<>>
               /\ UNCHANGED comments
               /\ resp' = Raise("EmissionError")

\* -------------------------------------------------------- issue reactions
ReactionPayloads ==
  {[kind |-> "reaction", reaction |-> c] : c \in ReactionCodes}
    \cup {[kind |-> "invalid"]}

IssueReactionRow(id, project, issue, actor, code) ==
  [id |-> id, project |-> project, workspace |-> ProjectWorkspace(project),
   issue |-> issue, actor |-> actor, reaction |-> code]

\* a store that accepts a second row with the same key
IssueReactionKeyNeverTaken(issue, actor, code) == FALSE

\* storage uniqueness of IssueReaction on (issue, actor, reaction)
IssueReactionKeyTaken(issue, actor, code) ==
  \E r \in issue_reactions : r.issue = issue /\ r.actor = actor /\ r.reaction = code

IssueReactionGetQueryset(slug, project, issue) ==
  IF ~HasBoard(slug, project) THEN <<>>
  ELSE IF ~BoardOf(slug, project).reactions THEN <<>>
  ELSE Reverse(OrderById({r \in issue_reactions : /\ r.workspace = slug
                                                  /\ r.project = project
                                                  /\ r.issue = issue}))

IssueReactionList(slug, project, issue, requester) ==
  /\ req' = Request("issue_reaction_list", slug, project, issue, 0, "-", requester, Null, TRUE)
  /\ resp' = Listing(IssueReactionGetQueryset(slug, project, issue))
  /\ events' = <<>>
  /\ UNCHANGED <<boards, stores, nextId>>

IssueReactionCreate(slug, project, issue, actor, payload, emit_ok) ==
  /\ req' = Request("issue_reaction_create", slug, project, issue, 0, "-", actor, payload, emit_ok)
  /\ UNCHANGED <<boards, comments, comment_reactions, votes>>
  /\ IF ReactionGate(slug, project) # Pass
     THEN /\ resp' = ReactionGate(slug, project)
          /\ events' = <<>>
          /\ UNCHANGED <<issue_reactions, public_members, nextId>>
     ELSE IF ~IsValid(payload)
     THEN /\ resp' = Reply("ValidationError")
          /\ events' = <<>>
          /\ UNCHANGED <<issue_reactions, public_members, nextId>>
     ELSE IF IssueReactionKeyTaken(issue, actor, payload.reaction)
     THEN \* the insert violates the uniqueness of (issue, actor, reaction)
          /\ resp' = Raise("IntegrityError")
          /\ events' = <<>>
          /\ UNCHANGED <<issue_reactions, public_members, nextId>>
     ELSE /\ issue_reactions' = issue_reactions \cup
               {IssueReactionRow(nextId, project, issue, actor, payload.reaction)}
          /\ nextId' = nextId + 1
          /\ public_members' = RegisterVisitor(public_members, project, actor)
          /\ IF emit_ok
             THEN /\ events' = <<Event("issue_reaction.activity.created", payload,
                                         actor, issue, project, Null)>>
                  /\ resp' = Reply("Created")
             ELSE /\ events' = <<>>
                  /\ resp' = Raise("EmissionError")

\* the lookup without actor=request.user
IssueReactionDestroyLookupAnyActor(slug, project, issue, code, actor) ==
  {r \in issue_reactions : /\ r.workspace = slug /\ r.issue = issue
                           /\ r.reaction = code}

\* IssueReaction.objects.get(workspace__slug, issue_id, reaction, actor)
IssueReactionDestroyLookup(slug, project, issue, code, actor) ==
  {r \in issue_reactions : /\ r.workspace = slug /\ r.issue = issue
                           /\ r.reaction = code /\ r.actor = actor}

IssueReactionDestroy(slug, project, issue, code, actor, emit_ok) ==
  LET found == IssueReactionDestroyLookup(slug, project, issue, code, actor) IN
  /\ req' = Request("issue_reaction_destroy", slug, project, issue, 0, code, actor, Null, emit_ok)
  /\ UNCHANGED <<boards, comments, comment_reactions, votes, public_members, nextId>>
  /\ IF ReactionGate(slug, project) # Pass
     THEN /\ resp' = ReactionGate(slug, project)
          /\ events' = <<>>
          /\ UNCHANGED issue_reactions
     ELSE IF found = {}
     THEN /\ resp' = Raise("DoesNotExist")
          /\ events' = <<>>
          /\ UNCHANGED issue_reactions
     ELSE LET row == CHOOSE r \in found : TRUE IN
          IF emit_ok
          THEN /\ events' = <<Event("issue_reaction.activity.deleted", Null, actor,
                                    issue, project,
                                    [kind |-> "reaction", reaction |-> code,
                                     identifier |-> row.id])>>
               /\ issue_reactions' = issue_reactions \ {row}
               /\ resp' = Reply("NoContent")
          ELSE /\ events' = <<>>
               /\ UNCHANGED issue_reactions
               /\ resp' = Raise("EmissionError")

\* ------------------------------------------------------ comment reactions
CommentReactionRow(id, project, comment, actor, code) ==
  [id |-> id, project |-> project, workspace |-> ProjectWorkspace(project),
   comment |-> comment, actor |-> actor, reaction |-> code]

\* storage uniqueness of CommentReaction on (comment, actor, reaction)
CommentReactionKeyTaken(comment, actor, code) ==
  \E r \in comment_reactions :
    r.comment = comment /\ r.actor = actor /\ r.reaction = code

CommentReactionGetQueryset(slug, project, comment) ==
  IF ~HasBoard(slug, project) THEN <<>>
  ELSE IF ~BoardOf(slug, project).reactions THEN <<>>
  ELSE Reverse(OrderById({r \in comment_reactions : /\ r.workspace = slug
                                                    /\ r.project = project
                                                    /\ r.comment = comment}))

CommentReactionList(slug, project, comment, requester) ==
  /\ req' = Request("comment_reaction_list", slug, project, "None", comment, "-", requester, Null, TRUE)
  /\ resp' = Listing(CommentReactionGetQueryset(slug, project, comment))
  /\ events' = <<>>
  /\ UNCHANGED <<boards, stores, nextId>>

CommentReactionCreate(slug, project, comment, actor, payload, emit_ok) ==
  /\ req' = Request("comment_reaction_create", slug, project, "None", comment, "-", actor, payload, emit_ok)
  /\ UNCHANGED <<boards, comments, issue_reactions, votes>>
  /\ IF ReactionGate(slug, project) # Pass
     THEN /\ resp' = ReactionGate(slug, project)
          /\ events' = <<>>
          /\ UNCHANGED <<comment_reactions, public_members, nextId>>
     ELSE IF ~IsValid(payload)
     THEN /\ resp' = Reply("ValidationError")
          /\ events' = <<>>
          /\ UNCHANGED <<comment_reactions, public_members, nextId>>
     ELSE IF CommentReactionKeyTaken(comment, actor, payload.reaction)
     THEN \* the insert violates the uniqueness of (comment, actor, reaction)
          /\ resp' = Raise("IntegrityError")
          /\ events' = <<>>
          /\ UNCHANGED <<comment_reactions, public_members, nextId>>
     ELSE /\ comment_reactions' = comment_reactions \cup
               {CommentReactionRow(nextId, project, comment, actor, payload.reaction)}
          /\ nextId' = nextId + 1
          /\ public_members' = RegisterVisitor(public_members, project, actor)
          /\ IF emit_ok
             THEN /\ events' = <<Event("comment_reaction.activity.created", payload,
                                         actor, "None", project, Null)>>
                  /\ resp' = Reply("Created")
             ELSE /\ events' = <<>>
                  /\ resp' = Raise("EmissionError")

\* CommentReaction.objects.get(project_id, workspace__slug, comment_id, reaction, actor)
CommentReactionDestroyLookup(slug, project, comment, code, actor) ==
  {r \in comment_reactions : /\ r.project = project /\ r.workspace = slug
                             /\ r.comment = comment /\ r.reaction = code
                             /\ r.actor = actor}

CommentReactionDestroy(slug, project, comment, code, actor, emit_ok) ==
  LET found == CommentReactionDestroyLookup(slug, project, comment, code, actor) IN
  /\ req' = Request("comment_reaction_destroy", slug, project, "None", comment, code, actor, Null, emit_ok)
  /\ UNCHANGED <<boards, comments, issue_reactions, votes, public_members, nextId>>
  /\ IF ReactionGate(slug, project) # Pass
     THEN /\ resp' = ReactionGate(slug, project)
          /\ events' = <<>>
          /\ UNCHANGED comment_reactions
     ELSE IF found = {}
     THEN /\ resp' = Raise("DoesNotExist")
          /\ events' = <<>>
          /\ UNCHANGED comment_reactions
     ELSE LET row == CHOOSE r \in found : TRUE IN
          IF emit_ok
          THEN /\ events' = <<Event("comment_reaction.activity.deleted", Null, actor,
                                    "None", project,
                                    [kind |-> "reaction", reaction |-> code,
                                     identifier |-> row.id, comment_id |-> comment])>>
               /\ comment_reactions' = comment_reactions \ {row}
               /\ resp' = Reply("NoContent")
          ELSE /\ events' = <<>>
               /\ UNCHANGED comment_reactions
               /\ resp' = Raise("EmissionError")

\* ------------------------------------------------------------------ votes
VotePayloads == {[kind |-> "vote", vote |-> -1], [kind |-> "vote", vote |-> 1],
                 [kind |-> "empty"]}
\* request.data.get("vote", 1)
VoteValue(payload) == IF payload.kind = "vote" THEN payload.vote ELSE 1

\* storage uniqueness of IssueVote on (issue, actor)
VoteKeyTaken(issue, actor) ==
  \E v \in votes : v.issue = issue /\ v.actor = actor

\* IssueVote.objects.get_or_create(actor_id, project_id, issue_id): the rows matched
VoteLookup(project, issue, actor) ==
  {v \in votes : v.actor = actor /\ v.project = project /\ v.issue = issue}

VoteRow(id, project, issue, actor, vote) ==
  [id |-> id, project |-> project, workspace |-> ProjectWorkspace(project),
   issue |-> issue, actor |-> actor, vote |-> vote]

VoteCreate(slug, project, issue, actor, payload, emit_ok) ==
  LET found == VoteLookup(project, issue, actor)
      r == Request("vote_create", slug, project, issue, 0, "-", actor, payload, emit_ok)
  IN
  /\ req' = r
  /\ UNCHANGED <<boards, comments, issue_reactions, comment_reactions>>
  /\ IF found = {} /\ VoteKeyTaken(issue, actor)
     THEN \* the insert of get_or_create violates the uniqueness of (issue, actor)
          /\ resp' = Raise("IntegrityError")
          /\ events' = <<>>
          /\ UNCHANGED <<votes, public_members, nextId>>
     ELSE IF ~IsValid(payload)
     THEN \* no serializer validates the payload: the row of get_or_create and the
          \* visitor are stored when save() rejects the value of "vote"
          /\ votes' = IF found = {}
                       THEN votes \cup {VoteRow(nextId, project, issue, actor, 1)}
                       ELSE votes
          /\ nextId' = IF found = {} THEN nextId + 1 ELSE nextId
          /\ public_members' = RegisterVisitor(public_members, project, actor)
          /\ events' = <<>>
          /\ resp' = Raise("ValueError")
     ELSE /\ LET old == IF found = {} THEN VoteRow(nextId, project, issue, actor, 1)
                        ELSE CHOOSE v \in found : TRUE
                 new == [old EXCEPT !.vote = VoteValue(payload)]
             IN votes' = (votes \ {old}) \cup {new}
          /\ nextId' = IF found = {} THEN nextId + 1 ELSE nextId
          /\ public_members' = RegisterVisitor(public_members, project, actor)
          /\ IF emit_ok
             THEN /\ events' = <<Event("issue_vote.activity.created", payload,
                                         actor, issue, project, Null)>>
                  /\ resp' = Reply("Created")
             ELSE /\ events' = <<>>
                  /\ resp' = Raise("EmissionError")

VoteGetQueryset(slug, project, issue) ==
  IF ~HasBoard(slug, project) THEN <<>>
  ELSE IF ~BoardOf(slug, project).votes THEN <<>>
  ELSE OrderById({v \in votes : /\ v.issue = issue /\ v.workspace = slug
                                /\ v.project = project})

VoteList(slug, project, issue, requester) ==
  /\ req' = Request("vote_list", slug, project, issue, 0, "-", requester, Null, TRUE)
  /\ resp' = Listing(VoteGetQueryset(slug, project, issue))
  /\ events' = <<>>
  /\ UNCHANGED <<boards, stores, nextId>>

\* IssueVote.objects.get(workspace__slug, project_id, issue_id, actor_id)
VoteDestroyLookup(slug, project, issue, actor) ==
  {v \in votes : v.workspace = slug /\ v.project = project
                 /\ v.issue = issue /\ v.actor = actor}

VoteDestroy(slug, project, issue, actor, emit_ok) ==
  LET found == VoteDestroyLookup(slug, project, issue, actor)
      r == Request("vote_destroy", slug, project, issue, 0, "-", actor, Null, emit_ok)
  IN
  /\ req' = r
  /\ UNCHANGED <<boards, comments, issue_reactions, comment_reactions,
                 public_members, nextId>>
  /\ IF found = {}
     THEN /\ resp' = Raise("DoesNotExist")
          /\ events' = <<>>
          /\ UNCHANGED votes
     ELSE LET row == CHOOSE v \in found : TRUE IN
          IF emit_ok
          THEN /\ events' = <<Event("issue_vote.activity.deleted", Null, actor,
                                    issue, project,
                                    [kind |-> "vote", vote |-> row.vote,
                                     identifier |-> row.id])>>
               /\ votes' = votes \ {row}
               /\ resp' = Reply("NoContent")
          ELSE /\ resp' = Raise("EmissionError")
               /\ events' = <<>>
               /\ UNCHANGED votes

\* ---------------------------------------------------------- issue listing
\* issue_filters(request.query_params, "GET"), narrowed to a priority filter
IssueQueries == {[kind |-> "query", priority |-> p] : p \in Priorities \cup {"any"}}
MatchesFilters(i, query) == query.priority = "any" \/ i.priority = query.priority

\* the queryset built first: project, workspace and is_draft
BaseIssueQueryset(slug, project) ==
  {i \in IssueRows : i.project = project /\ i.workspace = slug /\ i.is_draft}

\* what self.get_queryset() of the view yields: the view defines none, so the
\* call either raises or falls back to an unscoped manager
ViewQuerysets == {"raises", "all"}

ProjectIssuesGet(slug, project, query, qs) ==
  /\ req' = Request("issues_list", slug, project, "-", 0, "-", Anonymous, query, TRUE)
  /\ events' = <<>>
  /\ UNCHANGED <<boards, stores, nextId>>
  /\ IF ~HasBoard(slug, project)
     THEN resp' = Reply("NotFound")
     ELSE LET discarded == BaseIssueQueryset(slug, project) IN
          IF qs = "raises"
          THEN resp' = Raise("AttributeError")
          ELSE resp' = Response("Ok", "none", <<>>,
                                {i.id : i \in {r \in IssueRows : MatchesFilters(r, query)}})

\* Issue.objects.get(workspace__slug=slug, project_id=project_id, pk=issue_id)
IssueRetrieveLookup(slug, project, issue) ==
  {i \in IssueRows : i.workspace = slug /\ i.project = project /\ i.id = issue}

\* IssueRetrievePublicEndpoint.get: no board is looked up
IssueRetrieveGet(slug, project, issue) ==
  /\ req' = Request("issue_retrieve", slug, project, issue, 0, "-", Anonymous, Null, TRUE)
  /\ events' = <<>>
  /\ UNCHANGED <<boards, stores, nextId>>
  /\ IF IssueRetrieveLookup(slug, project, issue) = {}
     THEN resp' = Raise("DoesNotExist")
     ELSE resp' = Response("Ok", "none", <<>>,
                           {i.id : i \in IssueRetrieveLookup(slug, project, issue)})

\* ------------------------------------------------------------------ Init
BoardFlags == [comments : BOOLEAN, reactions : BOOLEAN, votes : BOOLEAN]
AllEnabled == [comments |-> TRUE, reactions |-> TRUE, votes |-> TRUE]
AllDisabled == [comments |-> FALSE, reactions |-> FALSE, votes |-> FALSE]
BoardRow(p, f) ==
  [workspace |-> ProjectWorkspace(p), project |-> p, comments |-> f.comments,
   reactions |-> f.reactions, votes |-> f.votes]

\* P2 is published with every capability and P3 is not published; P1 is not
\* published or published with one of the flag settings p1Flags
InitWith(p1Flags) ==
  /\ \E p1 \in {{}} \cup {{BoardRow("P1", f)} : f \in p1Flags} :
       boards = p1 \cup {BoardRow("P2", AllEnabled)}
  /\ comments = {InternalComment}
  /\ issue_reactions = {}
  /\ comment_reactions = {}
  /\ votes = {}
  /\ public_members = [k \in PathProjects \X Users |-> 0]
  /\ events = <<>>
  /\ nextId = 1
  /\ req = NoRequest
  /\ resp = Reply("Ok")
  /\ calls = [w \in Workers |-> NoCall]

\* the one flag off and the others on, and the reverse
OnlyOff(flag) == [AllEnabled EXCEPT ![flag] = FALSE]
OnlyOn(flag) == [AllDisabled EXCEPT ![flag] = TRUE]

\* P1 is not published or has exactly one capability on
Init == InitWith({OnlyOn("comments"), OnlyOn("reactions"), OnlyOn("votes")})
InitComment == InitWith({OnlyOff("comments"), OnlyOn("comments")})
InitReaction == InitWith({OnlyOff("reactions"), OnlyOn("reactions")})
InitVote == InitWith({OnlyOff("votes"), OnlyOn("votes")})
InitCreate == InitWith({AllEnabled, OnlyOff("reactions")})
InitIssues == InitWith(BoardFlags)

\* the response is delivered and the request context dropped
Finish ==
  /\ ~Idle
  /\ req' = NoRequest
  /\ resp' = Reply("Ok")
  /\ events' = <<>>
  /\ UNCHANGED <<boards, stores, nextId, calls>>

\* at most cap rows have been inserted after the step
Within(cap) == nextId' <= cap + 1

DoCommentList(issues) ==
  \E slug \in PathSlugs, project \in PathProjects, issue \in issues,
     requester \in {"B", Anonymous} :
    Idle /\ UNCHANGED calls /\ CommentList(slug, project, issue, requester)

DoCommentCreate(cap, issues, bodies) ==
  \E slug \in PathSlugs, project \in PathProjects, issue \in issues,
     actor \in Users, emit_ok \in BOOLEAN,
     payload \in {p \in CommentPayloads : p.kind = "comment" => p.comment_html \in bodies} :
    Idle /\ UNCHANGED calls /\ CommentCreate(slug, project, issue, actor, payload, emit_ok) /\ Within(cap)

DoCommentPartialUpdate(cap, issues, bodies) ==
  \E slug \in PathSlugs, project \in PathProjects, issue \in issues,
     pk \in 0..cap, actor \in Users, emit_ok \in BOOLEAN,
     payload \in {p \in CommentPayloads : p.kind = "comment" => p.comment_html \in bodies} :
    Idle /\ UNCHANGED calls /\ CommentPartialUpdate(slug, project, issue, pk, actor, payload, emit_ok)

DoCommentDestroy(cap, issues) ==
  \E slug \in PathSlugs, project \in PathProjects, issue \in issues,
     pk \in 0..cap, actor \in Users, emit_ok \in BOOLEAN :
    Idle /\ UNCHANGED calls /\ CommentDestroy(slug, project, issue, pk, actor, emit_ok)

DoIssueReactionList(issues) ==
  \E slug \in PathSlugs, project \in PathProjects, issue \in issues :
    Idle /\ UNCHANGED calls /\ IssueReactionList(slug, project, issue, Anonymous)

DoIssueReactionCreate(cap, issues, codes) ==
  \E slug \in PathSlugs, project \in PathProjects, issue \in issues,
     actor \in Users, emit_ok \in BOOLEAN,
     payload \in {p \in ReactionPayloads : p.kind = "reaction" => p.reaction \in codes} :
    Idle /\ UNCHANGED calls /\ IssueReactionCreate(slug, project, issue, actor, payload, emit_ok) /\ Within(cap)

DoIssueReactionDestroy(issues, codes) ==
  \E slug \in PathSlugs, project \in PathProjects, issue \in issues,
     code \in codes, actor \in Users, emit_ok \in BOOLEAN :
    Idle /\ UNCHANGED calls /\ IssueReactionDestroy(slug, project, issue, code, actor, emit_ok)

DoCommentReactionList(ids) ==
  \E slug \in PathSlugs, project \in PathProjects, comment \in ids :
    Idle /\ UNCHANGED calls /\ CommentReactionList(slug, project, comment, Anonymous)

DoCommentReactionCreate(cap, ids, codes) ==
  \E slug \in PathSlugs, project \in PathProjects, comment \in ids,
     actor \in Users, emit_ok \in BOOLEAN,
     payload \in {p \in ReactionPayloads : p.kind = "reaction" => p.reaction \in codes} :
    Idle /\ UNCHANGED calls /\ CommentReactionCreate(slug, project, comment, actor, payload, emit_ok) /\ Within(cap)

DoCommentReactionDestroy(ids, codes) ==
  \E slug \in PathSlugs, project \in PathProjects, comment \in ids,
     code \in codes, actor \in Users, emit_ok \in BOOLEAN :
    Idle /\ UNCHANGED calls /\ CommentReactionDestroy(slug, project, comment, code, actor, emit_ok)

DoVoteList(issues) ==
  \E slug \in PathSlugs, project \in PathProjects, issue \in issues :
    Idle /\ UNCHANGED calls /\ VoteList(slug, project, issue, Anonymous)

DoVoteCreate(cap, issues, emits) ==
  \E slug \in PathSlugs, project \in PathProjects, issue \in issues,
     actor \in Users, payload \in VotePayloads, emit_ok \in emits :
    Idle /\ UNCHANGED calls /\ VoteCreate(slug, project, issue, actor, payload, emit_ok) /\ Within(cap)

\* a vote create whose "vote" is not a number
DoVoteCreateInvalid(cap, issues) ==
  \E slug \in PathSlugs, project \in PathProjects, issue \in issues,
     actor \in Users, emit_ok \in BOOLEAN :
    Idle /\ UNCHANGED calls
         /\ VoteCreate(slug, project, issue, actor, [kind |-> "invalid"], emit_ok)
         /\ Within(cap)

DoVoteDestroy(issues, emits) ==
  \E slug \in PathSlugs, project \in PathProjects, issue \in issues,
     actor \in Users, emit_ok \in emits :
    Idle /\ UNCHANGED calls /\ VoteDestroy(slug, project, issue, actor, emit_ok)

DoProjectIssuesGet(queries) ==
  \E slug \in Slugs, project \in Projects, query \in queries,
     qs \in ViewQuerysets :
    Idle /\ UNCHANGED calls /\ ProjectIssuesGet(slug, project, query, qs)

DoIssueRetrieve(slugs, projects, issues) ==
  \E slug \in slugs, project \in projects, issue \in issues :
    Idle /\ UNCHANGED calls /\ IssueRetrieveGet(slug, project, issue)

NextComment ==
  \/ DoCommentList(PathIssues)
  \/ DoCommentCreate(MaxComments, PathIssues, CommentBodies)
  \/ DoCommentPartialUpdate(MaxComments, PathIssues, CommentBodies)
  \/ DoCommentDestroy(MaxComments, PathIssues)
  \/ Finish

NextReaction ==
  \/ DoIssueReactionList(PathIssues)
  \/ DoIssueReactionCreate(MaxReactions, PathIssues, ReactionCodes)
  \/ DoIssueReactionDestroy(PathIssues, ReactionCodes)
  \/ DoCommentReactionList({0})
  \/ DoCommentReactionCreate(MaxReactions, {0}, ReactionCodes)
  \/ DoCommentReactionDestroy({0}, ReactionCodes)
  \/ Finish

\* the four create handlers, on one issue, one comment body, one reaction code
NextCreate ==
  \/ DoCommentCreate(MaxCreates, {"I1"}, {"a"})
  \/ DoIssueReactionCreate(MaxCreates, {"I1"}, {"x"})
  \/ DoCommentReactionCreate(MaxCreates, {0}, {"x"})
  \/ DoVoteCreate(MaxCreates, {"I1"}, BOOLEAN)
  \/ Finish

\* the four create handlers with valid and invalid payloads
NextValidate ==
  \/ DoCommentCreate(MaxCreates, {"I1"}, {"a"})
  \/ DoIssueReactionCreate(MaxCreates, {"I1"}, {"x"})
  \/ DoCommentReactionCreate(MaxCreates, {0}, {"x"})
  \/ DoVoteCreate(MaxCreates, {"I1"}, BOOLEAN)
  \/ DoVoteCreateInvalid(MaxCreates, {"I1"})
  \/ Finish

NextVote ==
  \/ DoVoteList(PathIssues)
  \/ DoVoteCreate(MaxVotes, PathIssues, BOOLEAN)
  \/ DoVoteDestroy(PathIssues, BOOLEAN)
  \/ Finish

\* the vote handlers while the broker accepts every event
NextVoteDelivered ==
  \/ DoVoteList(PathIssues)
  \/ DoVoteCreate(MaxVotes, PathIssues, {TRUE})
  \/ DoVoteDestroy(PathIssues, {TRUE})
  \/ Finish

NextIssues ==
  \/ DoProjectIssuesGet(IssueQueries)
  \/ DoIssueRetrieve(Slugs, Projects, {i.id : i \in IssueRows})
  \/ Finish

\* every handler, on one issue, one comment body, one reaction code
Next ==
  \/ DoCommentList({"I1"})
  \/ DoCommentCreate(MaxRows, {"I1"}, {"a"})
  \/ DoCommentPartialUpdate(MaxRows, {"I1"}, {"b"})
  \/ DoCommentDestroy(MaxRows, {"I1"})
  \/ DoIssueReactionList({"I1"})
  \/ DoIssueReactionCreate(MaxRows, {"I1"}, {"x"})
  \/ DoIssueReactionDestroy({"I1"}, {"x"})
  \/ DoCommentReactionList({0})
  \/ DoCommentReactionCreate(MaxRows, {0}, {"x"})
  \/ DoCommentReactionDestroy({0}, {"x"})
  \/ DoVoteList({"I1"})
  \/ DoVoteCreate(MaxRows, {"I1"}, BOOLEAN)
  \/ DoVoteDestroy({"I1"}, BOOLEAN)
  \/ DoProjectIssuesGet({[kind |-> "query", priority |-> "any"]})
  \/ DoIssueRetrieve(PathSlugs, PathProjects, {"I1"})
  \/ Finish

Spec == Init /\ [][Next]_vars
SpecComment == InitComment /\ [][NextComment]_vars
SpecReaction == InitReaction /\ [][NextReaction]_vars
SpecCreate == InitCreate /\ [][NextCreate]_vars
SpecValidate == InitCreate /\ [][NextValidate]_vars
SpecVote == InitVote /\ [][NextVote]_vars
SpecVoteDelivered == InitVote /\ [][NextVoteDelivered]_vars
SpecIssues == InitIssues /\ [][NextIssues]_vars

\* ------------------------------------------------------------ operations
CommentMutations == {"comment_create", "comment_update", "comment_destroy"}
ReactionMutations == {"issue_reaction_create", "issue_reaction_destroy",
                      "comment_reaction_create", "comment_reaction_destroy"}
VoteMutations == {"vote_create", "vote_destroy"}
Mutations == CommentMutations \cup ReactionMutations \cup VoteMutations
Creations == {"comment_create", "issue_reaction_create",
              "comment_reaction_create", "vote_create"}
Deletions == {"comment_destroy", "issue_reaction_destroy",
              "comment_reaction_destroy", "vote_destroy"}
Lists == {"comment_list", "issue_reaction_list", "comment_reaction_list", "vote_list"}

\* ------------------------------------------------- handlers, step by step
\* The create and destroy handlers as the sequence of their calls to the
\* database and to the task broker, so that the order of the calls inside one
\* request and the interleaving of the calls of two requests can be observed.

\* delete() before issue_activity.delay() in the destroy handlers
ProgramDeleteFirst(op) ==
  CASE op = "comment_create" -> <<"gate", "save", "emit", "register", "register_insert">>
    [] op \in {"issue_reaction_create", "comment_reaction_create"} ->
         <<"gate", "save", "register", "register_insert", "emit">>
    [] op = "vote_create" ->
         <<"vote_get", "vote_insert", "register", "register_insert", "vote_save", "emit">>
    [] op \in {"comment_destroy", "issue_reaction_destroy", "comment_reaction_destroy"} ->
         <<"gate", "lookup", "delete", "emit">>
    [] op = "vote_destroy" -> <<"lookup", "delete", "emit">>

\* the calls of a handler in the order of its statements; get_or_create is a
\* get followed, when the get finds nothing, by an insert
Program(op) ==
  CASE op = "comment_create" -> <<"gate", "save", "emit", "register", "register_insert">>
    [] op \in {"issue_reaction_create", "comment_reaction_create"} ->
         <<"gate", "save", "register", "register_insert", "emit">>
    [] op = "vote_create" ->
         <<"vote_get", "vote_insert", "register", "register_insert", "vote_save", "emit">>
    [] op \in {"comment_destroy", "issue_reaction_destroy", "comment_reaction_destroy"} ->
         <<"gate", "lookup", "emit", "delete">>
    [] op = "vote_destroy" -> <<"lookup", "emit", "delete">>

\* the status of the Response at the end of a handler
SuccessOf(op) == IF op \in Creations THEN "Created" ELSE "NoContent"

\* a request taken by a worker: its position in the handler, the instance the
\* handler holds, and the events it has handed to issue_activity.delay
Call(r) ==
  [status |-> "running", req |-> r, at |-> 1, row |-> Null,
   exception |-> "none", events |-> <<>>]

Running(w) == calls[w].status = "running"
Pc(c) == Program(c.req.op)[c.at]
At(w, step) == Running(w) /\ Pc(calls[w]) = step

\* the handler goes on n calls further, or returns its Response
Advance(c, n) ==
  IF c.at + n > Len(Program(c.req.op))
  THEN [c EXCEPT !.at = c.at + n, !.status = SuccessOf(c.req.op)]
  ELSE [c EXCEPT !.at = c.at + n]

\* the handler returns an error Response or is left by an exception
Fail(c, response) ==
  [c EXCEPT !.status = response.status, !.exception = response.exception]

CallBegin(w, r) ==
  /\ calls[w] = NoCall
  /\ \A v \in Workers : v < w => calls[v] # NoCall
  /\ calls' = [calls EXCEPT ![w] = Call(r)]
  /\ UNCHANGED <<boards, stores, events, nextId, req, resp>>

\* no request is being handled
Sequential == \A v \in Workers : ~Running(v)

\* ProjectDeployBoard.objects.get(...) and the flag test
CallGate(w) ==
  LET c == calls[w]
      gate == IF c.req.op \in CommentMutations
              THEN CommentGate(c.req.slug, c.req.project)
              ELSE ReactionGate(c.req.slug, c.req.project)
  IN
  /\ At(w, "gate")
  /\ calls' = [calls EXCEPT ![w] = IF gate = Pass THEN Advance(c, 1) ELSE Fail(c, gate)]
  /\ UNCHANGED <<boards, stores, events, nextId, req, resp>>

\* serializer.is_valid() and serializer.save(...) of comment create
CallCommentSave(w) ==
  LET c == calls[w]
      r == c.req
      row == CommentRow(nextId, r.project, r.issue, r.actor, "EXTERNAL",
                        r.payload.comment_html)
  IN
  /\ At(w, "save") /\ r.op = "comment_create"
  /\ UNCHANGED <<boards, issue_reactions, comment_reactions, votes, public_members,
                 events, req, resp>>
  /\ IF ~IsValid(r.payload)
     THEN /\ calls' = [calls EXCEPT ![w] = Fail(c, Reply("ValidationError"))]
          /\ UNCHANGED <<comments, nextId>>
     ELSE /\ comments' = comments \cup {row}
          /\ nextId' = nextId + 1
          /\ calls' = [calls EXCEPT ![w] = Advance([c EXCEPT !.row = row], 1)]

\* serializer.is_valid() and serializer.save(...) of issue reaction create
CallIssueReactionSave(w) ==
  LET c == calls[w]
      r == c.req
      row == IssueReactionRow(nextId, r.project, r.issue, r.actor, r.payload.reaction)
  IN
  /\ At(w, "save") /\ r.op = "issue_reaction_create"
  /\ UNCHANGED <<boards, comments, comment_reactions, votes, public_members,
                 events, req, resp>>
  /\ IF ~IsValid(r.payload)
     THEN /\ calls' = [calls EXCEPT ![w] = Fail(c, Reply("ValidationError"))]
          /\ UNCHANGED <<issue_reactions, nextId>>
     ELSE IF IssueReactionKeyTaken(r.issue, r.actor, r.payload.reaction)
     THEN /\ calls' = [calls EXCEPT ![w] = Fail(c, Raise("IntegrityError"))]
          /\ UNCHANGED <<issue_reactions, nextId>>
     ELSE /\ issue_reactions' = issue_reactions \cup {row}
          /\ nextId' = nextId + 1
          /\ calls' = [calls EXCEPT ![w] = Advance([c EXCEPT !.row = row], 1)]

\* serializer.is_valid() and serializer.save(...) of comment reaction create
CallCommentReactionSave(w) ==
  LET c == calls[w]
      r == c.req
      row == CommentReactionRow(nextId, r.project, r.comment, r.actor, r.payload.reaction)
  IN
  /\ At(w, "save") /\ r.op = "comment_reaction_create"
  /\ UNCHANGED <<boards, comments, issue_reactions, votes, public_members,
                 events, req, resp>>
  /\ IF ~IsValid(r.payload)
     THEN /\ calls' = [calls EXCEPT ![w] = Fail(c, Reply("ValidationError"))]
          /\ UNCHANGED <<comment_reactions, nextId>>
     ELSE IF CommentReactionKeyTaken(r.comment, r.actor, r.payload.reaction)
     THEN /\ calls' = [calls EXCEPT ![w] = Fail(c, Raise("IntegrityError"))]
          /\ UNCHANGED <<comment_reactions, nextId>>
     ELSE /\ comment_reactions' = comment_reactions \cup {row}
          /\ nextId' = nextId + 1
          /\ calls' = [calls EXCEPT ![w] = Advance([c EXCEPT !.row = row], 1)]

\* the keyword arguments the handler passes to issue_activity.delay
EventOf(c) ==
  LET r == c.req IN
  CASE r.op = "comment_create" ->
         Event("comment.activity.created", CommentData(c.row), r.actor, r.issue,
               r.project, Null)
    [] r.op = "issue_reaction_create" ->
         Event("issue_reaction.activity.created", r.payload, r.actor, r.issue,
               r.project, Null)
    [] r.op = "comment_reaction_create" ->
         Event("comment_reaction.activity.created", r.payload, r.actor, "None",
               r.project, Null)
    [] r.op = "vote_create" ->
         Event("issue_vote.activity.created", r.payload, r.actor, r.issue,
               r.project, Null)
    [] r.op = "comment_destroy" ->
         Event("comment.activity.deleted", [kind |-> "comment_id", comment_id |-> r.comment],
               r.actor, r.issue, r.project, CommentData(c.row))
    [] r.op = "issue_reaction_destroy" ->
         Event("issue_reaction.activity.deleted", Null, r.actor, r.issue, r.project,
               [kind |-> "reaction", reaction |-> r.code, identifier |-> c.row.id])
    [] r.op = "comment_reaction_destroy" ->
         Event("comment_reaction.activity.deleted", Null, r.actor, "None", r.project,
               [kind |-> "reaction", reaction |-> r.code, identifier |-> c.row.id,
                comment_id |-> r.comment])
    [] r.op = "vote_destroy" ->
         Event("issue_vote.activity.deleted", Null, r.actor, r.issue, r.project,
               [kind |-> "vote", vote |-> c.row.vote, identifier |-> c.row.id])

\* issue_activity.delay(...)
CallEmit(w) ==
  LET c == calls[w] IN
  /\ At(w, "emit")
  /\ calls' = [calls EXCEPT ![w] =
                 IF c.req.emit_ok
                 THEN Advance([c EXCEPT !.events = Append(@, EventOf(c))], 1)
                 ELSE Fail(c, Raise("EmissionError"))]
  /\ UNCHANGED <<boards, stores, events, nextId, req, resp>>

\* storage uniqueness of ProjectPublicMember on (project, member)
PublicMemberKeyTaken(pm, project, user) == pm[<<project, user>>] > 0

\* the ProjectMember test and the get of ProjectPublicMember.objects.get_or_create
CallRegister(w) ==
  LET c == calls[w] IN
  /\ At(w, "register")
  /\ calls' = [calls EXCEPT ![w] =
                 IF \/ IsActiveMember(c.req.project, c.req.actor)
                    \/ public_members[<<c.req.project, c.req.actor>>] > 0
                 THEN Advance(c, 2)
                 ELSE Advance(c, 1)]
  /\ UNCHANGED <<boards, stores, events, nextId, req, resp>>

\* ProjectPublicMember.objects.create(...) in place of get_or_create: the insert
\* of an existing key leaves the handler as an IntegrityError
CallRegisterInsertCreate(w) ==
  LET c == calls[w]
      k == <<c.req.project, c.req.actor>>
  IN
  /\ At(w, "register_insert")
  /\ UNCHANGED <<boards, comments, issue_reactions, comment_reactions, votes,
                 events, nextId, req, resp>>
  /\ IF PublicMemberKeyTaken(public_members, c.req.project, c.req.actor)
     THEN /\ UNCHANGED public_members
          /\ calls' = [calls EXCEPT ![w] = Fail(c, Raise("IntegrityError"))]
     ELSE /\ public_members' = [public_members EXCEPT ![k] = @ + 1]
          /\ calls' = [calls EXCEPT ![w] = Advance(c, 1)]

\* the insert of ProjectPublicMember.objects.get_or_create: when the key was
\* inserted in the meantime get_or_create catches the IntegrityError and
\* returns the row it then finds
CallRegisterInsert(w) ==
  LET c == calls[w]
      k == <<c.req.project, c.req.actor>>
  IN
  /\ At(w, "register_insert")
  /\ public_members' =
       IF PublicMemberKeyTaken(public_members, c.req.project, c.req.actor)
       THEN public_members
       ELSE [public_members EXCEPT ![k] = @ + 1]
  /\ calls' = [calls EXCEPT ![w] = Advance(c, 1)]
  /\ UNCHANGED <<boards, comments, issue_reactions, comment_reactions, votes,
                 events, nextId, req, resp>>

\* the get of IssueVote.objects.get_or_create(actor_id, project_id, issue_id)
CallVoteGet(w) ==
  LET c == calls[w]
      found == VoteLookup(c.req.project, c.req.issue, c.req.actor)
  IN
  /\ At(w, "vote_get")
  /\ calls' = [calls EXCEPT ![w] =
                 IF found # {}
                 THEN Advance([c EXCEPT !.row = CHOOSE v \in found : TRUE], 2)
                 ELSE Advance(c, 1)]
  /\ UNCHANGED <<boards, stores, events, nextId, req, resp>>

\* the insert of IssueVote.objects.get_or_create: on an IntegrityError
\* get_or_create repeats the get and raises when that finds nothing
CallVoteInsert(w) ==
  LET c == calls[w]
      r == c.req
      found == VoteLookup(r.project, r.issue, r.actor)
      row == VoteRow(nextId, r.project, r.issue, r.actor, 1)
  IN
  /\ At(w, "vote_insert")
  /\ UNCHANGED <<boards, comments, issue_reactions, comment_reactions,
                 public_members, events, req, resp>>
  /\ IF VoteKeyTaken(r.issue, r.actor)
     THEN /\ UNCHANGED <<votes, nextId>>
          /\ calls' = [calls EXCEPT ![w] =
                         IF found # {}
                         THEN Advance([c EXCEPT !.row = CHOOSE v \in found : TRUE], 1)
                         ELSE Fail(c, Raise("IntegrityError"))]
     ELSE /\ votes' = votes \cup {row}
          /\ nextId' = nextId + 1
          /\ calls' = [calls EXCEPT ![w] = Advance([c EXCEPT !.row = row], 1)]

\* issue_vote.vote = request.data.get("vote", 1); issue_vote.save(): an UPDATE
\* of the row with the instance's primary key, an INSERT when that row is gone
CallVoteSave(w) ==
  LET c == calls[w]
      new == [c.row EXCEPT !.vote = VoteValue(c.req.payload)]
      stored == {v \in votes : v.id = new.id}
  IN
  /\ At(w, "vote_save")
  /\ UNCHANGED <<boards, comments, issue_reactions, comment_reactions,
                 public_members, events, nextId, req, resp>>
  /\ IF ~IsValid(c.req.payload)
     THEN /\ UNCHANGED votes
          /\ calls' = [calls EXCEPT ![w] = Fail(c, Raise("ValueError"))]
     ELSE IF stored = {} /\ VoteKeyTaken(new.issue, new.actor)
     THEN /\ UNCHANGED votes
          /\ calls' = [calls EXCEPT ![w] = Fail(c, Raise("IntegrityError"))]
     ELSE /\ votes' = (votes \ stored) \cup {new}
          /\ calls' = [calls EXCEPT ![w] = Advance([c EXCEPT !.row = new], 1)]

\* the rows the objects.get(...) of a destroy handler matches
DestroyLookup(r) ==
  CASE r.op = "comment_destroy" ->
         CommentDestroyLookup(r.slug, r.project, r.comment, r.actor)
    [] r.op = "issue_reaction_destroy" ->
         IssueReactionDestroyLookup(r.slug, r.project, r.issue, r.code, r.actor)
    [] r.op = "comment_reaction_destroy" ->
         CommentReactionDestroyLookup(r.slug, r.project, r.comment, r.code, r.actor)
    [] r.op = "vote_destroy" ->
         VoteDestroyLookup(r.slug, r.project, r.issue, r.actor)

\* Model.objects.get(...) of a destroy handler
CallLookup(w) ==
  LET c == calls[w]
      found == DestroyLookup(c.req)
  IN
  /\ At(w, "lookup")
  /\ calls' = [calls EXCEPT ![w] =
                 IF found = {}
                 THEN Fail(c, Raise("DoesNotExist"))
                 ELSE Advance([c EXCEPT !.row = CHOOSE x \in found : TRUE], 1)]
  /\ UNCHANGED <<boards, stores, events, nextId, req, resp>>

\* instance.delete(): removes the row with the instance's primary key
CallDelete(w) ==
  LET c == calls[w]
      op == c.req.op
      Without(rows) == {x \in rows : x.id # c.row.id}
  IN
  /\ At(w, "delete")
  /\ comments' = IF op = "comment_destroy" THEN Without(comments) ELSE comments
  /\ issue_reactions' =
       IF op = "issue_reaction_destroy" THEN Without(issue_reactions) ELSE issue_reactions
  /\ comment_reactions' =
       IF op = "comment_reaction_destroy" THEN Without(comment_reactions)
       ELSE comment_reactions
  /\ votes' = IF op = "vote_destroy" THEN Without(votes) ELSE votes
  /\ calls' = [calls EXCEPT ![w] = Advance(c, 1)]
  /\ UNCHANGED <<boards, public_members, events, nextId, req, resp>>

\* the create requests on issue I1 and comment 0, with one body and one code
CreateRequests(projects, actors, payloads, emits) ==
  UNION {
    { Request("comment_create", "w1", p, "I1", 0, "-", a,
              [kind |-> "comment", comment_html |-> "a"], e),
      Request("issue_reaction_create", "w1", p, "I1", 0, "-", a,
              [kind |-> "reaction", reaction |-> "x"], e),
      Request("comment_reaction_create", "w1", p, "None", 0, "-", a,
              [kind |-> "reaction", reaction |-> "x"], e) }
    \cup { Request("vote_create", "w1", p, "I1", 0, "-", a, v, e) : v \in payloads }
    : p \in projects, a \in actors, e \in emits }

\* the destroy requests on issue I1, comment 0 and the comments created here
DestroyRequests(projects, actors, emits) ==
  UNION {
    { Request("comment_destroy", "w1", p, "I1", pk, "-", a, Null, e) : pk \in Workers }
    \cup
    { Request("issue_reaction_destroy", "w1", p, "I1", 0, "x", a, Null, e),
      Request("comment_reaction_destroy", "w1", p, "None", 0, "x", a, Null, e),
      Request("vote_destroy", "w1", p, "I1", 0, "-", a, Null, e) }
    : p \in projects, a \in actors, e \in emits }

\* P1 is not published or has comments and reactions off
InitSteps == InitWith({OnlyOn("votes")})

\* the create and destroy handlers step by step, one request after the other
NextSteps ==
  \/ \E w \in Workers :
       \E r \in CreateRequests(PathProjects, {"A"}, {[kind |-> "vote", vote |-> -1]}, {TRUE})
                  \cup DestroyRequests(PathProjects, {"A"}, {TRUE}) :
         Sequential /\ CallBegin(w, r)
  \/ \E w \in Workers : CallGate(w)
  \/ \E w \in Workers : CallCommentSave(w)
  \/ \E w \in Workers : CallIssueReactionSave(w)
  \/ \E w \in Workers : CallCommentReactionSave(w)
  \/ \E w \in Workers : CallVoteGet(w)
  \/ \E w \in Workers : CallVoteInsert(w)
  \/ \E w \in Workers : CallVoteSave(w)
  \/ \E w \in Workers : CallRegister(w)
  \/ \E w \in Workers : CallRegisterInsert(w)
  \/ \E w \in Workers : CallEmit(w)
  \/ \E w \in Workers : CallLookup(w)
  \/ \E w \in Workers : CallDelete(w)

\* concurrent vote creates of one actor on one issue, every emission delivered
NextVoteRace ==
  \/ \E w \in Workers :
       \E p \in PathProjects, v \in {[kind |-> "vote", vote |-> -1], [kind |-> "vote", vote |-> 1]} :
         CallBegin(w, Request("vote_create", "w1", p, "I1", 0, "-", "A", v, TRUE))
  \/ \E w \in Workers : CallVoteGet(w)
  \/ \E w \in Workers : CallVoteInsert(w)
  \/ \E w \in Workers : CallVoteSave(w)
  \/ \E w \in Workers : CallRegister(w)
  \/ \E w \in Workers : CallRegisterInsert(w)
  \/ \E w \in Workers : CallEmit(w)

\* concurrent creates of the non-member A on the published project P2
NextRegisterRace ==
  \/ \E w \in Workers :
       \E r \in CreateRequests({"P2"}, {"A"}, {[kind |-> "vote", vote |-> 1]}, {TRUE}) :
         CallBegin(w, r)
  \/ \E w \in Workers : CallGate(w)
  \/ \E w \in Workers : CallCommentSave(w)
  \/ \E w \in Workers : CallIssueReactionSave(w)
  \/ \E w \in Workers : CallCommentReactionSave(w)
  \/ \E w \in Workers : CallVoteGet(w)
  \/ \E w \in Workers : CallVoteInsert(w)
  \/ \E w \in Workers : CallVoteSave(w)
  \/ \E w \in Workers : CallRegister(w)
  \/ \E w \in Workers : CallRegisterInsert(w)
  \/ \E w \in Workers : CallEmit(w)

SpecSteps == InitSteps /\ [][NextSteps]_vars
SpecVoteRace == InitSteps /\ [][NextVoteRace]_vars
SpecRegisterRace == InitSteps /\ [][NextRegisterRace]_vars

\* ----------------------------------------------------------------- claims

\* the request handled by the step addresses a pair with no board
UnpublishedStep == req'.op \in Mutations /\ ~HasBoard(req'.slug, req'.project)

\* C1: on a (workspace, project) pair without a DeployBoard every create, update
\* and delete of comments, reactions and votes returns an error, and changes no
\* comment, reaction, vote or ProjectPublicMember row and emits no event.
C1_UnpublishedMutationsRejected ==
  [][UnpublishedStep =>
       /\ resp'.status \in ErrorStatus
       /\ UNCHANGED stores
       /\ events' = <<>>]_vars

\* the request handled by the step is a vote request on a board with votes off
VotesOffStep ==
  /\ req'.op \in VoteMutations
  /\ HasBoard(req'.slug, req'.project)
  /\ ~BoardOf(req'.slug, req'.project).votes

\* C2: on a board whose votes flag is false, vote create and vote delete fail
\* with CapabilityDisabled, no IssueVote row is created, overwritten or removed,
\* no ProjectPublicMember is created and no event is emitted.
C2_VotesOffRejected ==
  [][VotesOffStep =>
       /\ resp'.status = "CapabilityDisabled"
       /\ UNCHANGED <<votes, public_members>>
       /\ events' = <<>>]_vars

\* the request handled by the step is a comment mutation on a board with
\* comments off, or a reaction mutation on a board with reactions off
CapabilityOffStep ==
  /\ req'.op \in CommentMutations \cup ReactionMutations
  /\ HasBoard(req'.slug, req'.project)
  /\ IF req'.op \in CommentMutations
     THEN ~BoardOf(req'.slug, req'.project).comments
     ELSE ~BoardOf(req'.slug, req'.project).reactions

\* C3: with the comments flag false, comment create, update and delete return
\* CapabilityDisabled; with the reactions flag false, issue-reaction and
\* comment-reaction create and delete return CapabilityDisabled; in each case the
\* rows, the ProjectPublicMembers and the emitted events stay as they were.
C3_CapabilityOffRejected ==
  [][CapabilityOffStep =>
       /\ resp'.status = "CapabilityDisabled"
       /\ UNCHANGED stores
       /\ events' = <<>>]_vars

\* an update of an existing comment by its author was refused for the flag
C3_Witness ==
  /\ req.op = "comment_update"
  /\ resp.status = "CapabilityDisabled"
  /\ IsValid(req.payload)
  /\ \E c \in comments : c.id = req.comment /\ c.actor = req.actor
                         /\ c.workspace = req.slug

\* the capability flag a list handler reads
ListFlag(op, board) ==
  CASE op = "comment_list" -> board.comments
    [] op \in {"issue_reaction_list", "comment_reaction_list"} -> board.reactions
    [] op = "vote_list" -> board.votes

\* C4: each of the four lists returns the empty sequence, and no error, when the
\* pair has no board or the board's flag for the resource is false, whatever
\* rows are stored.
C4_ListsDegradeToEmpty ==
  (/\ req.op \in Lists
   /\ \/ ~HasBoard(req.slug, req.project)
      \/ ~ListFlag(req.op, BoardOf(req.slug, req.project)))
  => (resp.status = "Ok" /\ resp.rows = <<>>)

\* an EXTERNAL comment of the issue is stored while its list came back empty
\* on a board with comments off
C4_Witness ==
  /\ req.op = "comment_list"
  /\ HasBoard(req.slug, req.project)
  /\ ~BoardOf(req.slug, req.project).comments
  /\ \E c \in comments : c.issue = req.issue /\ c.access = "EXTERNAL"
                         /\ c.workspace = req.slug
  /\ resp.rows = <<>>

\* the IssueVote rows of the (issue, actor) of the request
VotesOfRequest == {v \in votes : v.issue = req.issue /\ v.actor = req.actor}

\* C5: after a vote create (the latest of any run of vote creates by the actor on
\* the issue) that did not fail at emission, the request has succeeded and exactly
\* one IssueVote row exists for (issue, actor), holding the value of that request.
C5_VoteUpsert ==
  (req.op = "vote_create" /\ req.emit_ok)
  => /\ resp.status = "Created"
     /\ Cardinality(VotesOfRequest) = 1
     /\ \A v \in VotesOfRequest : v.vote = VoteValue(req.payload)

\* the step is a successful create
CreatedStep == req'.op \in Creations /\ resp'.status = "Created"

NonAuthorStep ==
  /\ req'.op \in {"comment_update", "comment_destroy"}
  /\ \E c \in comments : c.id = req'.comment /\ c.actor # req'.actor

\* C7 as stated: an update or delete of a comment by an identity other than its
\* author returns NotFound, leaves the row as it was and emits no event.
C7_NonAuthorNotFound ==
  [][NonAuthorStep =>
       /\ resp'.status = "NotFound"
       /\ comments' = comments
       /\ events' = <<>>]_vars

\* C7 amended: an update or delete of a comment by an identity other than its
\* author returns CapabilityDisabled when the addressed board has comments off
\* and NotFound otherwise (never Forbidden, never success), leaves the row as it
\* was and emits no event.
C7_NonAuthorRefused ==
  [][NonAuthorStep =>
       /\ resp'.status =
            IF /\ HasBoard(req'.slug, req'.project)
               /\ ~BoardOf(req'.slug, req'.project).comments
            THEN "CapabilityDisabled" ELSE "NotFound"
       /\ comments' = comments
       /\ events' = <<>>]_vars

\* on a board with comments on, an update of a stored comment of another
\* identity came back NotFound
C7_Witness ==
  /\ req.op = "comment_update"
  /\ HasBoard(req.slug, req.project)
  /\ BoardOf(req.slug, req.project).comments
  /\ IsValid(req.payload)
  /\ \E c \in comments : c.id = req.comment /\ c.actor # req.actor
  /\ resp.status = "NotFound"

\* the reaction rows with the natural key of a delete request
IssueReactionKeyRows(r) ==
  {x \in issue_reactions : x.issue = r.issue /\ x.reaction = r.code /\ x.actor = r.actor}
CommentReactionKeyRows(r) ==
  {x \in comment_reactions :
     x.comment = r.comment /\ x.reaction = r.code /\ x.actor = r.actor}

\* C8: a successful reaction delete removes exactly the one row with the key
\* (issue or comment, reaction code, requesting actor) and leaves every other
\* reaction row as it was, the rows of other actors with the same code included.
C8_ReactionDeleteByKey ==
  [][/\ (req'.op = "issue_reaction_destroy" /\ resp'.status = "NoContent") =>
          /\ Cardinality(IssueReactionKeyRows(req')) = 1
          /\ issue_reactions' = issue_reactions \ IssueReactionKeyRows(req')
          /\ comment_reactions' = comment_reactions
     /\ (req'.op = "comment_reaction_destroy" /\ resp'.status = "NoContent") =>
          /\ Cardinality(CommentReactionKeyRows(req')) = 1
          /\ comment_reactions' = comment_reactions \ CommentReactionKeyRows(req')
          /\ issue_reactions' = issue_reactions]_vars

\* an issue reaction was deleted while another actor's reaction with the same
\* code on the same issue is still stored
C8_Witness ==
  /\ req.op = "issue_reaction_destroy"
  /\ resp.status = "NoContent"
  /\ \E x \in issue_reactions :
       x.issue = req.issue /\ x.reaction = req.code /\ x.actor # req.actor

\* the primary effect of a delete request: its row is gone
DeleteEffect ==
  /\ req.op = "comment_destroy" =>
       ~\E c \in comments : c.id = req.comment /\ c.actor = req.actor
                            /\ c.project = req.project
  /\ req.op = "issue_reaction_destroy" =>
       ~\E x \in issue_reactions : x.issue = req.issue /\ x.reaction = req.code
                                   /\ x.actor = req.actor
  /\ req.op = "comment_reaction_destroy" =>
       ~\E x \in comment_reactions : /\ x.comment = req.comment
                                     /\ x.reaction = req.code
                                     /\ x.actor = req.actor
                                     /\ x.project = req.project
  /\ req.op = "vote_destroy" =>
       ~\E v \in votes : v.issue = req.issue /\ v.actor = req.actor
                         /\ v.project = req.project

\* C9: when the emission of the activity event fails during a create, update or
\* delete, the request still returns its success result and its write stands.
C9_EmissionFailureHarmless ==
  (req.op \in Mutations /\ resp.exception = "EmissionError")
  => (resp.status \in SuccessStatus /\ DeleteEffect)

IssueById(id) == CHOOSE i \in IssueRows : i.id = id

C11_UnpublishedNotReachable ==
  (/\ req.op \in Lists \cup {"issues_list", "issue_retrieve"}
   /\ ~HasBoard(req.slug, req.project))
  => /\ resp.rows = <<>>
     /\ resp.issues = {}
     /\ req.op = "issues_list" => resp.status = "NotFound"

\* the EXTERNAL comments of the issue of a list request
ExternalOfIssue(r) ==
  {c \in comments : c.workspace = r.slug /\ c.issue = r.issue /\ c.access = "EXTERNAL"}

\* C12: a comment create inserts at most one row, with access EXTERNAL, the
\* requesting identity as actor and the issue and project of the path; a comment
\* list on a board with comments on returns every stored EXTERNAL comment of the
\* issue (so every comment created here and not deleted, also for an anonymous
\* caller) and no comment that is not EXTERNAL or belongs to another issue.
C12_CreatedCommentsListed ==
  [][/\ req'.op = "comment_create" =>
          \/ comments' = comments
          \/ \E c \in comments' \ comments :
               /\ comments' = comments \cup {c}
               /\ c.access = "EXTERNAL"
               /\ c.actor = req'.actor
               /\ c.issue = req'.issue
               /\ c.project = req'.project
     /\ (/\ req'.op = "comment_list"
         /\ HasBoard(req'.slug, req'.project)
         /\ BoardOf(req'.slug, req'.project).comments) =>
          {resp'.rows[i].row : i \in 1..Len(resp'.rows)} = ExternalOfIssue(req')]_vars

\* an anonymous caller was listed a comment of an issue that also has an
\* INTERNAL comment stored
C12_Witness ==
  /\ req.op = "comment_list"
  /\ req.actor = Anonymous
  /\ Len(resp.rows) >= 1
  /\ \E c \in comments : c.issue = req.issue /\ c.access = "INTERNAL"

\* C13: the project issue listing answers NotFound exactly when the pair has no
\* DeployBoard, and is served when a board exists, whatever its three flags.
C13_ListingGateOnly ==
  req.op = "issues_list" =>
    resp.status = IF HasBoard(req.slug, req.project) THEN "Ok" ELSE "NotFound"

\* C14: the event of a successful comment update carries as current_instance
\* the serialized state the comment had before the update was written.
C14_UpdateSnapshotIsPrior ==
  [][(req'.op = "comment_update" /\ resp'.status = "Ok") =>
       /\ Len(events') = 1
       /\ \E c \in comments :
            /\ c.id = req'.comment
            /\ events'[1].current_instance = CommentData(c)]_vars

\* the event type of a mutating operation
EventType(op) ==
  CASE op = "comment_create" -> "comment.activity.created"
    [] op = "comment_update" -> "comment.activity.updated"
    [] op = "comment_destroy" -> "comment.activity.deleted"
    [] op = "issue_reaction_create" -> "issue_reaction.activity.created"
    [] op = "issue_reaction_destroy" -> "issue_reaction.activity.deleted"
    [] op = "comment_reaction_create" -> "comment_reaction.activity.created"
    [] op = "comment_reaction_destroy" -> "comment_reaction.activity.deleted"
    [] op = "vote_create" -> "issue_vote.activity.created"
    [] op = "vote_destroy" -> "issue_vote.activity.deleted"

\* C19: every state change emits exactly one activity event and no event is
\* emitted without one: a successful create, update or delete emits exactly one
\* event, typed with the resource and the verb, with the requesting identity as
\* actor and a null current_instance for a create; an operation refused with
\* CapabilityDisabled, ValidationError or NotFound emits none.
C19_OneEventPerChange ==
  [][req'.op \in Mutations =>
       /\ resp'.status \in SuccessStatus =>
            /\ Len(events') = 1
            /\ events'[1].type = EventType(req'.op)
            /\ events'[1].actor_id = req'.actor
            /\ req'.op \in Creations => events'[1].current_instance = Null
       /\ resp'.status \in {"CapabilityDisabled", "ValidationError", "NotFound"} =>
            events' = <<>>
       /\ stores' # stores => Len(events') = 1]_vars

\* C20: at most one IssueReaction row per (issue, actor, reaction code) and at
\* most one CommentReaction row per (comment, actor, reaction code).
C20_ReactionKeyUnique ==
  /\ \A x, y \in issue_reactions :
       (x.issue = y.issue /\ x.actor = y.actor /\ x.reaction = y.reaction) => x = y
  /\ \A x, y \in comment_reactions :
       (x.comment = y.comment /\ x.actor = y.actor /\ x.reaction = y.reaction) => x = y

\* a second create with the key of a stored issue reaction was refused
C20_Witness ==
  /\ req.op = "issue_reaction_create"
  /\ resp.exception = "IntegrityError"
  /\ IssueReactionKeyTaken(req.issue, req.actor, req.payload.reaction)

\* the worker takes a step of its handler
Steps(w) == Running(w) /\ calls'[w] # calls[w]

\* C15: however the calls of concurrent vote creates of one actor on one issue
\* interleave, there is never more than one IssueVote row for the (issue, actor),
\* every request succeeds, and each write of a vote value leaves the row with the
\* value of the request that wrote it, nothing else changing a stored value, so
\* that the row ends with the value of the last write applied.
C15_VoteRaceLastWriteWins ==
  /\ [](/\ \A x, y \in votes : (x.issue = y.issue /\ x.actor = y.actor) => x = y
        /\ \A w \in Workers : calls[w].status \in {"idle", "running", "Created"})
  /\ [][/\ \A w \in Workers :
             (Steps(w) /\ Pc(calls[w]) = "vote_save") =>
               \A v \in votes' :
                 (v.issue = calls[w].req.issue /\ v.actor = calls[w].req.actor)
                   => v.vote = VoteValue(calls[w].req.payload)
        /\ (\A w \in Workers : Steps(w) => Pc(calls[w]) # "vote_save") =>
             \A v \in votes : v \in votes']_vars

\* C16: however the calls of concurrent creates of one non-member identity on one
\* project interleave, the visitor-registration calls never fail a request, no
\* (project, identity) ever has two ProjectPublicMember rows, and a finished
\* create of a non-member leaves exactly one.
C16_RegistrationRaceSafe ==
  /\ [](/\ \A k \in PathProjects \X Users : public_members[k] <= 1
        /\ \A w \in Workers :
             (/\ calls[w].status = "Created"
              /\ ~IsActiveMember(calls[w].req.project, calls[w].req.actor))
             => public_members[<<calls[w].req.project, calls[w].req.actor>>] = 1)
  /\ [][\A w \in Workers :
          (Steps(w) /\ Pc(calls[w]) \in {"register", "register_insert"})
            => calls'[w].status \in {"running", "Created"}]_vars

\* a request is about to insert the ProjectPublicMember row that another
\* request of the same identity on the same project inserted after its get
C16_Witness ==
  \E w, v \in Workers :
    /\ w # v
    /\ At(w, "register_insert")
    /\ calls[v].status \in {"running", "Created"}
    /\ calls[v].req.project = calls[w].req.project
    /\ calls[v].req.actor = calls[w].req.actor
    /\ PublicMemberKeyTaken(public_members, calls[w].req.project, calls[w].req.actor)

\* the board of the request exists with the capability of the resource on
FlagOn(r) ==
  /\ HasBoard(r.slug, r.project)
  /\ CASE r.op \in CommentMutations -> BoardOf(r.slug, r.project).comments
       [] r.op \in ReactionMutations -> BoardOf(r.slug, r.project).reactions
       [] r.op \in VoteMutations -> BoardOf(r.slug, r.project).votes

\* the value of the create request is stored
Persisted(c) ==
  CASE c.req.op = "comment_create" -> c.row \in comments
    [] c.req.op = "issue_reaction_create" -> c.row \in issue_reactions
    [] c.req.op = "comment_reaction_create" -> c.row \in comment_reactions
    [] c.req.op = "vote_create" ->
         \E v \in votes : /\ v.issue = c.req.issue /\ v.actor = c.req.actor
                          /\ v.vote = VoteValue(c.req.payload)

\* the visitor of the request needs no registration any more
Registered(r) ==
  IsActiveMember(r.project, r.actor) \/ public_members[<<r.project, r.actor>>] >= 1

\* C17: in every create the calls come in the order gate and capability check,
\* write of the resource, visitor registration, emission: a write is made only
\* with the board published and the capability on, the visitor is registered only
\* once the value of the resource is stored, and the event is emitted only once
\* the visitor is registered.
C17_CreateOrder ==
  [][\A w \in Workers :
       (Steps(w) /\ calls[w].req.op \in Creations) =>
         /\ Pc(calls[w]) \in {"save", "vote_insert", "vote_save"} => FlagOn(calls[w].req)
         /\ Pc(calls[w]) \in {"register", "register_insert"} => Persisted(calls[w])
         /\ Pc(calls[w]) = "emit" => Registered(calls[w].req)]_vars

\* the table a destroy handler deletes from
RowsOf(op) ==
  CASE op = "comment_destroy" -> comments
    [] op = "issue_reaction_destroy" -> issue_reactions
    [] op = "comment_reaction_destroy" -> comment_reactions
    [] op = "vote_destroy" -> votes

\* the row id a serialized snapshot carries
IdOf(snapshot) == IF snapshot.kind = "comment" THEN snapshot.id ELSE snapshot.identifier

\* C18: in a successful delete the "<resource>.activity.deleted" event is emitted
\* while the row is stored and before the handler removes it, with the id of the
\* row in current_instance and with requested_data null for reactions and votes
\* and {comment_id} for comments; the handler returns success from the removal,
\* after which the row is gone.
C18_DeleteEmitsThenRemoves ==
  [][\A w \in Workers :
       (Steps(w) /\ calls[w].req.op \in Deletions) =>
         /\ Pc(calls[w]) = "emit" =>
              /\ calls[w].row \in RowsOf(calls[w].req.op)
              /\ calls[w].row \in RowsOf(calls[w].req.op)'
              /\ Len(calls'[w].events) = 1
              /\ calls'[w].events[1].type = EventType(calls[w].req.op)
              /\ IdOf(calls'[w].events[1].current_instance) = calls[w].row.id
              /\ calls'[w].events[1].requested_data =
                   IF calls[w].req.op = "comment_destroy"
                   THEN [kind |-> "comment_id", comment_id |-> calls[w].req.comment]
                   ELSE Null
         /\ Pc(calls[w]) = "delete" =>
              /\ Len(calls[w].events) = 1
              /\ calls[w].row \in RowsOf(calls[w].req.op)
              /\ \A x \in RowsOf(calls[w].req.op)' : x.id # calls[w].row.id
         /\ calls'[w].status = "NoContent" => Pc(calls[w]) = "delete"]_vars

\* a comment created here has been deleted by its author
C18_Witness ==
  \E w \in Workers :
    /\ calls[w].status = "NoContent"
    /\ calls[w].req.op = "comment_destroy"
    /\ Len(calls[w].events) = 1
    /\ calls[w].row \notin comments

\* C21: a create whose payload is invalid for the schema of the resource, sent
\* to a published board with the capability on, fails with ValidationError for
\* each of the four resources, stores no row, creates no ProjectPublicMember and
\* emits no event.
C21_InvalidCreateRejected ==
  [][(/\ req'.op \in Creations
      /\ ~IsValid(req'.payload)
      /\ FlagOn(req')) =>
       /\ resp'.status = "ValidationError"
       /\ UNCHANGED stores
       /\ events' = <<>>]_vars

\* C22: every row an update or a delete modifies or removes belongs to the
\* project and to the issue or comment of the request path.
C22_MutationsStayInPath ==
  [][req'.op \in {"comment_update"} \cup Deletions =>
       /\ \A c \in comments \ comments' :
            c.project = req'.project /\ c.issue = req'.issue
       /\ \A x \in issue_reactions \ issue_reactions' :
            x.project = req'.project /\ x.issue = req'.issue
       /\ \A x \in comment_reactions \ comment_reactions' :
            x.project = req'.project /\ x.comment = req'.comment
       /\ \A v \in votes \ votes' :
            v.project = req'.project /\ v.issue = req'.issue]_vars
====
